---- MODULE Spec2Model ----
(***************************************************************************)
(* A model of decimal128.js: the Decimal128 value type (decimal128.mts),   *)
(* its digit-sequence engine (digitString.mts) and the text helper         *)
(* countSignificantDigits (common.mts).                                    *)
(*                                                                         *)
(* JavaScript strings are sequences of one-character strings.  A thrown    *)
(* exception is the record Err(name, msg), which every caller passes on.   *)
(* The exact-rational engine (rational.mjs) is imported by the sources but *)
(* is not among them; it is modelled from the specification text.          *)
(***************************************************************************)
EXTENDS Integers, Sequences, FiniteSets, TLC

\* ------------------------------------------------------------------------
\* Program constants (decimal128.mts)
\* ------------------------------------------------------------------------
EXPONENT_MIN == -6143
EXPONENT_MAX == 6144
MAX_SIGNIFICANT_DIGITS == 34

ROUNDING_MODE_CEILING == "ceil"
ROUNDING_MODE_FLOOR == "floor"
ROUNDING_MODE_EXPAND == "expand"
ROUNDING_MODE_TRUNCATE == "trunc"
ROUNDING_MODE_HALF_EVEN == "halfEven"
ROUNDING_MODE_HALF_EXPAND == "halfExpand"
ROUNDING_MODE_HALF_CEILING == "halfCeil"
ROUNDING_MODE_HALF_FLOOR == "halfFloor"
ROUNDING_MODE_HALF_TRUNCATE == "halfTrunc"

RoundingMode ==
    { ROUNDING_MODE_CEILING, ROUNDING_MODE_FLOOR, ROUNDING_MODE_EXPAND,
      ROUNDING_MODE_TRUNCATE, ROUNDING_MODE_HALF_EVEN,
      ROUNDING_MODE_HALF_EXPAND, ROUNDING_MODE_HALF_CEILING,
      ROUNDING_MODE_HALF_FLOOR, ROUNDING_MODE_HALF_TRUNCATE }

ROUNDING_MODE_DEFAULT == ROUNDING_MODE_HALF_EXPAND

\* ------------------------------------------------------------------------
\* Bounds of the model
\* ------------------------------------------------------------------------
\* digits 0..MaxDigit are used in the generated family of short literals
MaxDigit == 2
\* round(n, mode) is called with n in 0..MaxPlaces
MaxPlaces == 2
\* nested remainder calls waiting for their trailing negate()
MaxDepth == 3
\* arithmetic on the rational engine is applied to operands of at most
\* this many digits (the machine integers of the checker are 32 bits wide)
MaxOperandDigits == 3

\* ------------------------------------------------------------------------
\* JavaScript values and strings
\* ------------------------------------------------------------------------
\* the numbers NaN and undefined, where a digit is expected
JsNaN == -3
JsUndefined == -2

Err(name, msg) == [tag |-> "err", name |-> name, msg |-> msg]

IsErr(v) == v.tag = "err"

DigitChars == {"0", "1", "2", "3", "4", "5", "6", "7", "8", "9"}

DigitToChar(d) ==
    CASE d = 0 -> "0" [] d = 1 -> "1" [] d = 2 -> "2" [] d = 3 -> "3"
      [] d = 4 -> "4" [] d = 5 -> "5" [] d = 6 -> "6" [] d = 7 -> "7"
      [] d = 8 -> "8" [] d = 9 -> "9"

\* s.split("") of a template literal `${v}` for a number or undefined
NumberToString(v) ==
    CASE v = JsNaN -> <<"N", "a", "N">>
      [] v = JsUndefined -> <<"u", "n", "d", "e", "f", "i", "n", "e", "d">>
      [] v = 10 -> <<"1", "0">>
      [] OTHER -> <<DigitToChar(v)>>

Substring(s, from, to) == SubSeq(s, from + 1, to)

SubstringFrom(s, from) == SubSeq(s, from + 1, Len(s))

StartsWithMinus(s) == Len(s) > 0 /\ s[1] = "-"

HasDot(s) == \E i \in 1..Len(s) : s[i] = "."

FirstDot(s) == CHOOSE i \in 1..Len(s) : s[i] = "." /\ \A j \in 1..(i - 1) : s[j] # "."

\* s.split(".") as far as the callers destructure it: [lhs, rhs]
SplitDot(s) ==
    IF ~HasDot(s)
    THEN [lhs |-> s, hasRhs |-> FALSE, rhs |-> <<>>]
    ELSE LET i == FirstDot(s)
             rest == SubSeq(s, i + 1, Len(s))
         IN [lhs |-> SubSeq(s, 1, i - 1),
             hasRhs |-> TRUE,
             rhs |-> IF HasDot(rest) THEN SubSeq(rest, 1, FirstDot(rest) - 1) ELSE rest]

\* s.replace(/[.]/, "")
RemoveFirstDot(s) ==
    IF ~HasDot(s) THEN s
    ELSE LET i == FirstDot(s) IN SubSeq(s, 1, i - 1) \o SubSeq(s, i + 1, Len(s))

\* the length of the match of /^0+/ (0 when there is none)
LeadingZeros(s) ==
    LET nz == {i \in 1..Len(s) : s[i] # "0"}
    IN IF nz = {} THEN Len(s)
       ELSE (CHOOSE i \in nz : \A j \in nz : i <= j) - 1

\* the length of the match of /0+$/ (0 when there is none)
TrailingZeros(s) ==
    LET nz == {i \in 1..Len(s) : s[i] # "0"}
    IN IF nz = {} THEN Len(s)
       ELSE Len(s) - (CHOOSE i \in nz : \A j \in nz : i >= j)

Repeat(c, n) == [i \in 1..n |-> c]

RECURSIVE DigitsToInt(_)
\* BigInt(digits.join("")) and parseInt of a run of digits; "" gives 0n
DigitsToInt(ds) ==
    IF ds = <<>> THEN 0
    ELSE 10 * DigitsToInt(SubSeq(ds, 1, Len(ds) - 1)) + ds[Len(ds)]

RECURSIVE IntToChars(_)
\* BigInt.prototype.toString of a non-negative integer
IntToChars(n) ==
    IF n < 10 THEN <<DigitToChar(n)>>
    ELSE Append(IntToChars(n \div 10), DigitToChar(n % 10))

RECURSIVE Pow10(_)
Pow10(n) == IF n = 0 THEN 1 ELSE 10 * Pow10(n - 1)

\* ------------------------------------------------------------------------
\* common.mts
\* ------------------------------------------------------------------------
RECURSIVE countSignificantDigits(_)
countSignificantDigits(s) ==
    IF StartsWithMinus(s)
    THEN countSignificantDigits(SubstringFrom(s, 1))
    ELSE IF Len(s) >= 2 /\ s[1] = "0" /\ s[2] = "."
    THEN \* /^0[.]/, then m = s.match(/[.]0+/): the point and the zeros after it
         LET z == LeadingZeros(SubstringFrom(s, 2))
         IN IF z > 0 THEN Len(s) - (z + 1) - 1 ELSE Len(s) - 2
    ELSE IF HasDot(s)
    THEN Len(s) - 1
    ELSE IF TrailingZeros(s) > 0
    THEN Len(s) - TrailingZeros(s)
    ELSE Len(s)

\* ------------------------------------------------------------------------
\* digitString.mts
\* ------------------------------------------------------------------------
integerCharToDigit(c) ==
    CASE c = "0" -> 0 [] c = "1" -> 1 [] c = "2" -> 2 [] c = "3" -> 3
      [] c = "4" -> 4 [] c = "5" -> 5 [] c = "6" -> 6 [] c = "7" -> 7
      [] c = "8" -> 8 [] c = "9" -> 9

\* parseInt of one character: charAt past the end is "", which parses to NaN
ParseIntChar(s, i) ==
    IF i + 1 <= Len(s) /\ s[i + 1] \in DigitChars
    THEN integerCharToDigit(s[i + 1])
    ELSE JsNaN

\* explodeDigits: the digits of s, or the error integerCharToDigit throws
explodeDigits(s) ==
    LET bad == {i \in 1..Len(s) : s[i] \notin DigitChars}
    IN IF bad = {}
       THEN [tag |-> "ok", digits |-> [i \in 1..Len(s) |-> integerCharToDigit(s[i])]]
       ELSE Err("Error", "Not a digit")

\* roundIt with a tie never rounded up in the mode halfFloor
roundItHalfFloorAsHalfTrunc(isNegative, digitToRound, decidingDigit, roundingMode) ==
    LET up == IF digitToRound \in 0..9 THEN digitToRound + 1 ELSE JsNaN
    IN CASE roundingMode = ROUNDING_MODE_CEILING ->
              IF isNegative THEN digitToRound ELSE up
         [] roundingMode = ROUNDING_MODE_FLOOR ->
              IF isNegative THEN up ELSE digitToRound
         [] roundingMode = ROUNDING_MODE_EXPAND -> up
         [] roundingMode = ROUNDING_MODE_TRUNCATE -> digitToRound
         [] roundingMode = ROUNDING_MODE_HALF_CEILING ->
              IF decidingDigit >= 5
              THEN IF isNegative THEN digitToRound ELSE up
              ELSE digitToRound
         [] roundingMode = ROUNDING_MODE_HALF_FLOOR ->
              IF decidingDigit > 5 THEN up ELSE digitToRound
         [] roundingMode = ROUNDING_MODE_HALF_TRUNCATE ->
              IF decidingDigit = 5
              THEN digitToRound
              ELSE IF decidingDigit > 5 THEN up ELSE digitToRound
         [] roundingMode = ROUNDING_MODE_HALF_EXPAND ->
              IF decidingDigit >= 5 THEN up ELSE digitToRound
         [] roundingMode = ROUNDING_MODE_HALF_EVEN ->
              IF decidingDigit = 5
              THEN IF digitToRound \in 0..9 /\ digitToRound % 2 = 0
                   THEN digitToRound
                   ELSE up
              ELSE IF decidingDigit > 5 THEN up ELSE digitToRound

roundIt(isNegative, digitToRound, decidingDigit, roundingMode) ==
    LET up == IF digitToRound \in 0..9 THEN digitToRound + 1 ELSE JsNaN
    IN CASE roundingMode = ROUNDING_MODE_CEILING ->
              IF isNegative THEN digitToRound ELSE up
         [] roundingMode = ROUNDING_MODE_FLOOR ->
              IF isNegative THEN up ELSE digitToRound
         [] roundingMode = ROUNDING_MODE_EXPAND -> up
         [] roundingMode = ROUNDING_MODE_TRUNCATE -> digitToRound
         [] roundingMode = ROUNDING_MODE_HALF_CEILING ->
              IF decidingDigit >= 5
              THEN IF isNegative THEN digitToRound ELSE up
              ELSE digitToRound
         [] roundingMode = ROUNDING_MODE_HALF_FLOOR ->
              IF decidingDigit = 5
              THEN IF isNegative THEN up ELSE digitToRound
              ELSE IF decidingDigit > 5 THEN up ELSE digitToRound
         [] roundingMode = ROUNDING_MODE_HALF_TRUNCATE ->
              IF decidingDigit = 5
              THEN digitToRound
              ELSE IF decidingDigit > 5 THEN up ELSE digitToRound
         [] roundingMode = ROUNDING_MODE_HALF_EXPAND ->
              IF decidingDigit >= 5 THEN up ELSE digitToRound
         [] roundingMode = ROUNDING_MODE_HALF_EVEN ->
              IF decidingDigit = 5
              THEN IF digitToRound \in 0..9 /\ digitToRound % 2 = 0
                   THEN digitToRound
                   ELSE up
              ELSE IF decidingDigit > 5 THEN up ELSE digitToRound

\* new DigitString(lhs, rhs)
DigitString(lhs, rhs) ==
    LET l == explodeDigits(lhs)
        r == explodeDigits(rhs)
    IN IF IsErr(l) THEN l
       ELSE IF IsErr(r) THEN r
       ELSE [tag |-> "ok", lhs |-> l.digits, rhs |-> r.digits]

Join(ds) == [i \in 1..Len(ds) |-> DigitToChar(ds[i])]

DigitStringToString(d) ==
    LET renderedLhs == Join(d.lhs)
        renderedRhs == Join(d.rhs)
    IN IF renderedLhs = <<>>
       THEN <<"0", ".">> \o renderedRhs
       ELSE renderedLhs \o <<".">> \o renderedRhs

\* the last two statements of DigitString.round
RoundedDigitString(lhs, newRhs, finalDigit, mode) ==
    DigitString(lhs,
                SubstringFrom(newRhs, 1) \o
                NumberToString(roundIt(FALSE, finalDigit, ParseIntChar(newRhs, 0), mode)))

\* DigitString.round after let [lhs, rhs] = this.toString().split(".")
RoundSplit(parts, finalDigit, mode) ==
    RoundedDigitString(parts.lhs, Append(parts.rhs, "0"), finalDigit, mode)

DigitStringRound(d, finalDigit, mode) ==
    RoundSplit(SplitDot(DigitStringToString(d)), finalDigit, mode)

DigitStringSignificand(d) == d.lhs \o d.rhs

DigitStringExponent(d) == Len(d.lhs)

DigitStringCountSignificantDigits(d) == Len(d.lhs) + Len(d.rhs)

isPowerOfTen(d) == Len(d.lhs) = 1 /\ d.lhs[1] = 1

DigitStringIsInteger(d) == DigitStringExponent(d) >= 0

\* ------------------------------------------------------------------------
\* rational.mjs: the exact-rational engine.  A rational is a pair of
\* integers, the denominator positive and the sign on the numerator.
\* ------------------------------------------------------------------------
Rational(p, q) ==
    IF q = 0 THEN Err("RangeError", "Zero denominator")
    ELSE IF q < 0 THEN [tag |-> "ok", num |-> 0 - p, den |-> 0 - q]
    ELSE [tag |-> "ok", num |-> p, den |-> q]

RationalAdd(x, y) == Rational(x.num * y.den + y.num * x.den, x.den * y.den)

RationalSubtract(x, y) == Rational(x.num * y.den - y.num * x.den, x.den * y.den)

RationalMultiply(x, y) == Rational(x.num * y.num, x.den * y.den)

RationalDivide(x, y) == Rational(x.num * y.den, x.den * y.num)

\* -1, 0 or 1 by the sign of the cross-multiplied difference
RationalCmp(x, y) ==
    LET l == x.num * y.den
        r == y.num * x.den
    IN IF l < r THEN -1 ELSE IF l > r THEN 1 ELSE 0

RECURSIVE FractionDigits(_, _, _, _)
\* long division: the digits after the point, until the remainder is zero
\* or n significant digits have been written (the rest is cut off)
FractionDigits(rem, den, written, n) ==
    IF rem = 0 \/ written >= n THEN <<>>
    ELSE <<DigitToChar((rem * 10) \div den)>> \o
         FractionDigits((rem * 10) % den, den,
                        IF written = 0 /\ rem * 10 < den THEN 0 ELSE written + 1, n)

\* the sign, the integer part and, if there is one, the fractional part
RenderDecimal(negative, intChars, frac) ==
    (IF negative THEN <<"-">> ELSE <<>>) \o intChars \o
    (IF frac = <<>> THEN <<>> ELSE <<".">> \o frac)

RenderMagnitude(negative, mag, den, n) ==
    RenderDecimal(negative,
                  IntToChars(mag \div den),
                  FractionDigits(mag % den, den,
                                 IF mag < den THEN 0 ELSE Len(IntToChars(mag \div den)), n))

RationalToDecimalPlaces(x, n) ==
    RenderMagnitude(x.num < 0, IF x.num < 0 THEN 0 - x.num ELSE x.num, x.den, n)

\* ------------------------------------------------------------------------
\* digitString.mts: DigitString.toRational
\* ------------------------------------------------------------------------
\* toRational after exp and sig are computed
ToRationalOf(powerOfTen, exp, sig) ==
    IF powerOfTen
    THEN IF exp < 0 THEN Rational(1, Pow10(0 - exp))
         ELSE IF exp = 0 THEN Rational(sig, 1)
         ELSE Rational(Pow10(exp), 1)
    ELSE IF exp < 0 THEN Rational(sig, 1)
    ELSE IF exp = 1 THEN Rational(sig * 10, 1)
    ELSE IF sig = 0 THEN Rational(0, 1)
    ELSE Rational(sig, Pow10(exp))

DigitStringToRational(d) ==
    ToRationalOf(isPowerOfTen(d), DigitStringExponent(d),
                 DigitsToInt(DigitStringSignificand(d)))

\* ------------------------------------------------------------------------
\* decimal128.mts: parsing
\* ------------------------------------------------------------------------
RECURSIVE significand(_)
significand(s) ==
    IF StartsWithMinus(s) THEN significand(SubstringFrom(s, 1))
    ELSE IF Len(s) >= 2 /\ s[1] = "0" /\ s[2] = "." THEN significand(SubstringFrom(s, 2))
    ELSE IF HasDot(s) THEN significand(RemoveFirstDot(s))
    ELSE IF LeadingZeros(s) > 0 THEN significand(SubstringFrom(s, LeadingZeros(s)))
    ELSE IF TrailingZeros(s) > 0 THEN significand(Substring(s, 0, Len(s) - TrailingZeros(s)))
    ELSE s

RECURSIVE exponent(_)
exponent(s) ==
    IF StartsWithMinus(s) THEN exponent(SubstringFrom(s, 1))
    ELSE IF HasDot(s) THEN 0 - Len(SplitDot(s).rhs)
    ELSE IF s = <<"0">> THEN 0
    ELSE TrailingZeros(s)

isInteger(x) == ~x.isNaN /\ x.isFinite /\ DigitStringExponent(x.digits) >= 0

\* validateConstructorData without the test of the number of digits
validateConstructorDataAnyLength(x) ==
    IF x.isNaN THEN x
    ELSE IF DigitStringExponent(x.digits) > EXPONENT_MAX
    THEN Err("RangeError", "Exponent too big")
    ELSE IF DigitStringExponent(x.digits) < EXPONENT_MIN
    THEN Err("RangeError", "Exponent too small")
    ELSE x

\* the error validateConstructorData throws, or the data when it returns
validateConstructorData(x) ==
    IF x.isNaN THEN x
    ELSE IF /\ isInteger(x)
            /\ DigitStringCountSignificantDigits(x.digits) > MAX_SIGNIFICANT_DIGITS
    THEN Err("RangeError", "Integer too large")
    ELSE IF DigitStringExponent(x.digits) > EXPONENT_MAX
    THEN Err("RangeError", "Exponent too big")
    ELSE IF DigitStringExponent(x.digits) < EXPONENT_MIN
    THEN Err("RangeError", "Exponent too small")
    ELSE x

Numeral(isNaN, isFinite, isNegative, digits) ==
    [tag |-> "num", isNaN |-> isNaN, isFinite |-> isFinite,
     isNegative |-> isNegative, digits |-> [lhs |-> digits.lhs, rhs |-> digits.rhs]]

handleNan(s) == Numeral(TRUE, FALSE, StartsWithMinus(s), DigitString(<<>>, <<>>))

handleInfinity(s) == Numeral(FALSE, FALSE, StartsWithMinus(s), DigitString(<<>>, <<>>))

\* a finite numeral of the digits, unless making the digits threw
FiniteData(isNegative, digits) ==
    IF IsErr(digits) THEN digits ELSE Numeral(FALSE, TRUE, isNegative, digits)

\* handleDecimalNotation from the rounding of the digits on
RoundIfTooLong(isNegative, withoutUnderscores, digits) ==
    IF IsErr(digits) THEN digits
    ELSE IF /\ ~(exponent(withoutUnderscores) >= 0)
            /\ countSignificantDigits(withoutUnderscores) > MAX_SIGNIFICANT_DIGITS
    THEN FiniteData(isNegative,
                    DigitStringRound(digits,
                                     ParseIntChar(significand(withoutUnderscores),
                                                  MAX_SIGNIFICANT_DIGITS),
                                     ROUNDING_MODE_HALF_EVEN))
    ELSE FiniteData(isNegative, digits)

\* new DigitString(lhs, typeof rhs === "undefined" ? "" : rhs)
DigitsOfSplit(parts) ==
    DigitString(parts.lhs, IF parts.hasRhs THEN parts.rhs ELSE <<>>)

\* handleDecimalNotation once the sign and the underscores are removed
HandleUnsigned(isNegative, withoutUnderscores) ==
    RoundIfTooLong(isNegative, withoutUnderscores, DigitsOfSplit(SplitDot(withoutUnderscores)))

WithoutSign(isNegative, stripped) ==
    IF isNegative THEN SubstringFrom(stripped, 1) ELSE stripped

handleDecimalNotation(s) ==
    HandleUnsigned(StartsWithMinus(s),
                   WithoutSign(StartsWithMinus(s), SelectSeq(s, LAMBDA c : c # "_")))

IsE(c) == c = "e" \/ c = "E"

FirstE(s) == CHOOSE i \in 1..Len(s) : IsE(s[i]) /\ \A j \in 1..(i - 1) : ~IsE(s[j])

CharsToDigits(s) == [i \in 1..Len(s) |-> integerCharToDigit(s[i])]

\* parseInt of an optional sign and a run of digits
ParseInt(s) ==
    (IF Len(s) > 0 /\ s[1] = "-" THEN -1 ELSE 1) *
    DigitsToInt(CharsToDigits(IF Len(s) > 0 /\ s[1] \in {"-", "+"}
                              THEN SubstringFrom(s, 1) ELSE s))

\* convertExponentialStringToDecimalString after lhs and exp are computed
ShiftPoint(lhs, exp) ==
    IF exp < 0
    THEN <<"0", ".">> \o Repeat("0", (0 - exp) - 1) \o RemoveFirstDot(lhs)
    ELSE IF exp = 0 THEN lhs
    ELSE IF exp >= Len(lhs) THEN lhs \o Repeat("0", exp - Len(lhs))
    ELSE Substring(lhs, 0, exp) \o <<".">> \o SubstringFrom(lhs, exp)

\* let [lhs, rhs] = s.split(/[eE]/), the marker at position k
SplitAtE(s, k) == ShiftPoint(SubSeq(s, 1, k - 1), ParseInt(SubSeq(s, k + 1, Len(s))))

convertExponentialStringToDecimalString(s) == SplitAtE(s, FirstE(s))

handleExponentialNotation(s) ==
    handleDecimalNotation(convertExponentialStringToDecimalString(s))

\* the regular expressions of the constructor
Lower(c) ==
    CASE c = "N" -> "n" [] c = "A" -> "a" [] c = "I" -> "i" [] c = "F" -> "f"
      [] c = "T" -> "t" [] c = "Y" -> "y" [] OTHER -> c

LowerCase(s) == [i \in 1..Len(s) |-> Lower(s[i])]

Unsigned(s) == IF StartsWithMinus(s) THEN SubstringFrom(s, 1) ELSE s

nanRegExp(s) == LowerCase(Unsigned(s)) = <<"n", "a", "n">>

infRegExp(s) ==
    \/ LowerCase(Unsigned(s)) = <<"i", "n", "f">>
    \/ LowerCase(Unsigned(s)) = <<"i", "n", "f", "i", "n", "i", "t", "y">>

\* [1-9][0-9]*
IsPositiveInteger(p) ==
    /\ Len(p) > 0
    /\ \A i \in 1..Len(p) : p[i] \in DigitChars
    /\ p[1] # "0"

\* [-+]?[1-9][0-9]*
IsSignedPositiveInteger(p) ==
    IsPositiveInteger(IF Len(p) > 0 /\ p[1] \in {"-", "+"} THEN SubstringFrom(p, 1) ELSE p)

ExponentialAt(body, k) ==
    /\ IsPositiveInteger(SubSeq(body, 1, k - 1))
    /\ IsSignedPositiveInteger(SubSeq(body, k + 1, Len(body)))

ExponentialBody(body) ==
    /\ \E i \in 1..Len(body) : IsE(body[i])
    /\ ExponentialAt(body, FirstE(body))

exponentRegExp(s) == ExponentialBody(Unsigned(s))

\* [0-9]+(?:_?[0-9]+)* : digits in groups, a single underscore between groups
IsDigitGroups(p) ==
    /\ Len(p) > 0
    /\ \A i \in 1..Len(p) : p[i] \in DigitChars \cup {"_"}
    /\ p[1] # "_"
    /\ p[Len(p)] # "_"
    /\ \A i \in 1..(Len(p) - 1) : ~(p[i] = "_" /\ p[i + 1] = "_")

DigitGroupsAround(body, k) ==
    /\ IsDigitGroups(SubSeq(body, 1, k - 1))
    /\ IsDigitGroups(SubSeq(body, k + 1, Len(body)))

DigitStrBody(body) ==
    IF HasDot(body) THEN DigitGroupsAround(body, FirstDot(body)) ELSE IsDigitGroups(body)

digitStrRegExp(s) == DigitStrBody(Unsigned(s))

\* new Decimal128(n): the numeral, or the error the constructor throws
Classify(n) ==
    IF nanRegExp(n) THEN handleNan(n)
    ELSE IF exponentRegExp(n) THEN handleExponentialNotation(n)
    ELSE IF digitStrRegExp(n) THEN handleDecimalNotation(n)
    ELSE IF infRegExp(n) THEN handleInfinity(n)
    ELSE Err("SyntaxError", "Illegal number format")

Validated(data) == IF IsErr(data) THEN data ELSE validateConstructorData(data)

Decimal128(n) == Validated(Classify(n))

\* ------------------------------------------------------------------------
\* decimal128.mts: the operations of Decimal128
\* ------------------------------------------------------------------------
NaNLiteral == <<"N", "a", "N">>

InfinityLiteral == <<"I", "n", "f", "i", "n", "i", "t", "y">>

toRational(x) == DigitStringToRational(x.digits)

toString(x) ==
    IF x.isNaN THEN NaNLiteral
    ELSE IF ~x.isFinite
    THEN (IF x.isNegative THEN <<"-">> ELSE <<>>) \o InfinityLiteral
    ELSE DigitStringToString(x.digits)

Decimal128IsInteger(x) == ~x.isNaN /\ x.isFinite /\ DigitStringExponent(x.digits) >= 0

isZero(x) == ~x.isNaN /\ x.isFinite /\ DigitStringIsInteger(x.digits)

\* The expression new Decimal128(lit) where an operation returns it; Made
\* evaluates it, and passes on a numeral that is returned as it is (this, x)
\* and an error already thrown.
New(lit) == [tag |-> "new", lit |-> lit]

Made(v) == IF v.tag = "new" THEN Decimal128(v.lit) ELSE v

abs(x) ==
    Made(IF x.isNegative THEN New(SubstringFrom(toString(x), 1)) ELSE x)

\* -1, 0 or 1, or undefined when an operand is NaN
cmp(this, x) ==
    IF this.isNaN \/ x.isNaN THEN JsUndefined
    ELSE IF ~this.isFinite
    THEN IF ~x.isFinite
         THEN IF this.isNegative = x.isNegative THEN 0
              ELSE IF this.isNegative THEN -1 ELSE 1
         ELSE IF this.isNegative THEN -1 ELSE 1
    ELSE IF ~x.isFinite
    THEN IF x.isNegative THEN 1 ELSE -1
    ELSE RationalCmp(toRational(this), toRational(x))

truncate(x) ==
    Made(IF x.isNaN THEN x ELSE New(SplitDot(toString(x)).lhs))

\* negate after let s = this.toString()
NegatedLiteral(s) ==
    IF StartsWithMinus(s) THEN New(SubstringFrom(s, 1)) ELSE New(<<"-">> \o s)

negate(x) == Made(NegatedLiteral(toString(x)))

\* new Decimal128(rat.toDecimalPlaces(MAX_SIGNIFICANT_DIGITS + 1))
NewFromRational(rat) ==
    IF IsErr(rat) THEN rat
    ELSE New(RationalToDecimalPlaces(rat, MAX_SIGNIFICANT_DIGITS + 1))

\* add with the NaN test on the receiver only
addChecksThisOnly(this, x) ==
    Made(IF this.isNaN THEN New(NaNLiteral)
         ELSE IF ~this.isFinite
         THEN IF ~x.isFinite
              THEN IF this.isNegative = x.isNegative THEN this
                   ELSE New(NaNLiteral)
              ELSE this
         ELSE IF ~x.isFinite THEN x
         ELSE NewFromRational(RationalAdd(toRational(this), toRational(x))))

\* add without the test for infinities of opposite sign
addIgnoresSign(this, x) ==
    Made(IF this.isNaN \/ x.isNaN THEN New(NaNLiteral)
         ELSE IF ~this.isFinite THEN this
         ELSE IF ~x.isFinite THEN x
         ELSE NewFromRational(RationalAdd(toRational(this), toRational(x))))

add(this, x) ==
    Made(IF this.isNaN \/ x.isNaN THEN New(NaNLiteral)
         ELSE IF ~this.isFinite
         THEN IF ~x.isFinite
              THEN IF this.isNegative = x.isNegative THEN this
                   ELSE New(NaNLiteral)
              ELSE this
         ELSE IF ~x.isFinite THEN x
         ELSE NewFromRational(RationalAdd(toRational(this), toRational(x))))

subtract(this, x) ==
    Made(IF this.isNaN \/ x.isNaN THEN New(NaNLiteral)
         ELSE IF ~this.isFinite
         THEN IF ~x.isFinite
              THEN IF this.isNegative = x.isNegative THEN New(NaNLiteral)
                   ELSE this
              ELSE this
         ELSE IF ~x.isFinite THEN NegatedLiteral(toString(x))
         ELSE NewFromRational(RationalSubtract(toRational(this), toRational(x))))

multiply(this, x) ==
    Made(IF this.isNaN \/ x.isNaN THEN New(NaNLiteral)
         ELSE IF ~this.isFinite
         THEN IF isZero(x) THEN New(NaNLiteral)
              ELSE IF this.isNegative = x.isNegative THEN New(InfinityLiteral)
              ELSE New(<<"-">> \o InfinityLiteral)
         ELSE IF ~x.isFinite
         THEN IF isZero(this) THEN New(NaNLiteral)
              ELSE IF this.isNegative = x.isNegative THEN New(InfinityLiteral)
              ELSE New(<<"-">> \o InfinityLiteral)
         ELSE NewFromRational(RationalMultiply(toRational(this), toRational(x))))

divide(this, x) ==
    Made(IF this.isNaN \/ x.isNaN THEN New(NaNLiteral)
         ELSE IF isZero(x) THEN New(NaNLiteral)
         ELSE IF ~this.isFinite
         THEN IF ~x.isFinite THEN New(NaNLiteral)
              ELSE IF this.isNegative = x.isNegative THEN New(InfinityLiteral)
              ELSE IF this.isNegative THEN this
              ELSE New(<<"-">> \o InfinityLiteral)
         ELSE IF ~x.isFinite
         THEN IF this.isNegative = x.isNegative THEN New(<<"0">>)
              ELSE New(<<"-", "0">>)
         ELSE NewFromRational(RationalDivide(toRational(this), toRational(x))))

\* this.digits.rhs[numDecimalDigits], undefined past the last digit
DecidingDigit(rhs, numDecimalDigits) ==
    IF numDecimalDigits < Len(rhs) THEN rhs[numDecimalDigits + 1] ELSE JsUndefined

\* new Decimal128(rounded.toString())
NewFromDigits(rounded) ==
    IF IsErr(rounded) THEN rounded ELSE New(DigitStringToString(rounded))

round(this, numDecimalDigits, roundingMode) ==
    Made(IF numDecimalDigits < 0
         THEN Err("RangeError", "Argument for number of decimal digits must be non-negative")
         ELSE IF this.isNaN THEN this
         ELSE IF ~this.isFinite THEN this
         ELSE IF Len(this.digits.rhs) < numDecimalDigits THEN this
         ELSE NewFromDigits(DigitStringRound(this.digits,
                                             DecidingDigit(this.digits.rhs, numDecimalDigits),
                                             roundingMode)))

\* a method called on the value of an expression that may have thrown
ThenRound(v) == IF IsErr(v) THEN v ELSE round(v, 0, ROUNDING_MODE_DEFAULT)

ThenMultiply(d, q) == IF IsErr(q) THEN q ELSE multiply(d, q)

ThenSubtract(this, p) == IF IsErr(p) THEN p ELSE subtract(this, p)

ThenAbs(v) == IF IsErr(v) THEN v ELSE abs(v)

\* the last two lines of remainder:
\* let q = this.divide(d).round(); return this.subtract(d.multiply(q)).abs()
remainderOfNonNegative(this, d) ==
    ThenAbs(ThenSubtract(this, ThenMultiply(d, ThenRound(divide(this, d)))))

\* toDecimalPlaces after let [lhs, rhs] = s.split(".")
ToDecimalPlacesOf(split, s, n) ==
    IF ~split.hasRhs \/ n = 0 THEN New(split.lhs)
    ELSE IF Len(split.rhs) <= n THEN New(s)
    ELSE New(split.lhs \o <<".">> \o Substring(split.rhs, 0, n - 1)
               \o NumberToString(ParseIntChar(split.rhs, n - 1) + 1))

\* n is an integer here
toDecimalPlaces(this, n) ==
    Made(IF n < 0 THEN Err("RangeError", "Argument must be non-negative")
         ELSE ToDecimalPlacesOf(SplitDot(toString(this)), toString(this), n))

floor(x) == truncate(x)

ThenTruncate(v) == IF IsErr(v) THEN v ELSE truncate(v)

\* new Decimal128("1")
One == Made(New(<<"1">>))

ceil(x) ==
    IF Decimal128IsInteger(x) THEN x
    ELSE IF x.isNegative THEN truncate(x)
    ELSE ThenTruncate(add(x, One))

reciprocal(x) == divide(One, x)

\* ------------------------------------------------------------------------
\* The literals handed to the constructor
\* ------------------------------------------------------------------------
\* short literals: an optional sign, one digit, an optional one-digit fraction
Family ==
    { sign \o <<DigitToChar(i)>> \o frac :
        sign \in {<<>>, <<"-">>},
        i \in 0..MaxDigit,
        frac \in {<<>>} \cup {<<".", DigitToChar(f)>> : f \in 0..MaxDigit} }

\* the literals of the documented scenarios
Examples ==
    { <<"1", "0">>, <<"4">>, <<"3">>, <<"-", "7">>, <<"2", ".", "5">>,
      <<"-", "2", ".", "5">>, <<"-", "7", ".", "0">>, <<"3", ".", "0">>,
      <<"1", "2", ".", "5">>, <<"-", "2">> }

Specials ==
    { NaNLiteral, <<"-">> \o NaNLiteral, InfinityLiteral, <<"-">> \o InfinityLiteral }

\* 1234567890123... of the given length, ending in the digits p and q
LongDigits(len, p, q) ==
    [i \in 1..len |->
        IF i = len - 1 THEN DigitToChar(p)
        ELSE IF i = len THEN DigitToChar(q)
        ELSE DigitToChar(i % 10)]

InsertPoint(ds, k) == SubSeq(ds, 1, k) \o <<".">> \o SubSeq(ds, k + 1, Len(ds))

\* the last two digits of the long literals: a tie on an even and on an odd
\* digit, a remainder above and one below the half
Tails == {<<4, 5>>, <<3, 5>>, <<4, 6>>, <<4, 4>>}

LongLiterals ==
    { LongDigits(MAX_SIGNIFICANT_DIGITS + 1, 3, 5),
      LongDigits(MAX_SIGNIFICANT_DIGITS, 3, 4),
      InsertPoint(LongDigits(MAX_SIGNIFICANT_DIGITS, 3, 4), 1),
      <<"0", ".">> \o LongDigits(MAX_SIGNIFICANT_DIGITS + 1, 4, 5),
      <<"1", ".">> \o Repeat("0", MAX_SIGNIFICANT_DIGITS) }
    \cup { InsertPoint(LongDigits(MAX_SIGNIFICANT_DIGITS + 1, t[1], t[2]), k) :
             t \in Tails, k \in {1, MAX_SIGNIFICANT_DIGITS} }

ExponentialLiterals ==
    { <<"1", "E">> \o IntToChars(e) :
        e \in {2, MAX_SIGNIFICANT_DIGITS, MAX_SIGNIFICANT_DIGITS + 1,
               EXPONENT_MAX, EXPONENT_MAX + 1} }
    \cup { <<"1", "2", "e", "1">>, <<"1", "E", "-", "2">>, <<"-", "1", "E", "-", "2">> }

OtherLiterals == { <<"5", ".">>, <<"1", "_", "0">>, <<"x">>, <<"i", "n", "f">> }

LiteralsA == Family \cup Examples \cup Specials \cup LongLiterals
             \cup ExponentialLiterals \cup OtherLiterals

LiteralsB == Family \cup Examples \cup Specials

\* ------------------------------------------------------------------------
\* The state: two numerals built from literals, the operation applied to
\* them and its outcome; a call of remainder in progress
\* ------------------------------------------------------------------------
VARIABLES
    litA, litB,     \* the literals given to new Decimal128
    a, b,           \* the outcome of the two constructions
    op,             \* the operation applied, "none" before
    places, mode,   \* the arguments of round
    res,            \* what the operation returned or threw
    pc,             \* remainder: "idle", "call", "return" or "done"
    rthis, rd,      \* remainder: this and d of the innermost call
    depth,          \* remainder: callers waiting to negate the result
    call,           \* roundIt: the arguments of a call and what it returned
    powi            \* pow: the loop variable i

vars == <<litA, litB, a, b, op, places, mode, res, pc, rthis, rd, depth, call, powi>>

None == [tag |-> "none"]

IsNum(v) == v.tag = "num"

\* operands the rational engine is applied to
Small(x) ==
    /\ IsNum(x)
    /\ DigitStringCountSignificantDigits(x.digits) <= MaxOperandDigits

Init ==
    /\ litA \in LiteralsA
    /\ litB \in LiteralsB
    /\ a = Decimal128(litA)
    /\ b = Decimal128(litB)
    /\ op = "none"
    /\ places = 0
    /\ mode = ROUNDING_MODE_DEFAULT
    /\ res = None
    /\ pc = "idle"
    /\ rthis = None
    /\ rd = None
    /\ depth = 0
    /\ call = None
    /\ powi = None

Apply(name, value) ==
    /\ op = "none"
    /\ op' = name
    /\ res' = value
    /\ UNCHANGED <<litA, litB, a, b, places, mode, pc, rthis, rd, depth, call, powi>>

Add == Small(a) /\ Small(b) /\ Apply("add", add(a, b))

Subtract == Small(a) /\ Small(b) /\ Apply("subtract", subtract(a, b))

Multiply == Small(a) /\ Small(b) /\ Apply("multiply", multiply(a, b))

Divide == Small(a) /\ Small(b) /\ Apply("divide", divide(a, b))

\* new Decimal128(a.toString())
Reparse == IsNum(a) /\ Apply("reparse", Decimal128(toString(a)))

\* a.cmp(b): the number returned
Number(n) == [tag |-> "number", value |-> n]

Cmp == Small(a) /\ Small(b) /\ Apply("cmp", Number(cmp(a, b)))

Abs == IsNum(a) /\ Apply("abs", abs(a))

Truncate == IsNum(a) /\ Apply("truncate", truncate(a))

Floor == IsNum(a) /\ Apply("floor", floor(a))

Ceil == IsNum(a) /\ Apply("ceil", ceil(a))

Reciprocal == IsNum(a) /\ Apply("reciprocal", reciprocal(a))

ToDecimalPlaces ==
    /\ IsNum(a)
    /\ op = "none"
    /\ \E n \in -1..MaxPlaces :
          /\ places' = n
          /\ res' = toDecimalPlaces(a, n)
    /\ op' = "toDecimalPlaces"
    /\ UNCHANGED <<litA, litB, a, b, mode, pc, rthis, rd, depth, call, powi>>

\* a.negate()
Negate == IsNum(a) /\ Apply("negate", negate(a))

Round ==
    /\ IsNum(a)
    /\ op = "none"
    /\ \E n \in 0..MaxPlaces, m \in RoundingMode :
          /\ places' = n
          /\ mode' = m
          /\ res' = round(a, n, m)
    /\ op' = "round"
    /\ UNCHANGED <<litA, litB, a, b, pc, rthis, rd, depth, call, powi>>

\* a.remainder(b) is entered
RemainderCall ==
    /\ Small(a)
    /\ Small(b)
    /\ op = "none"
    /\ op' = "remainder"
    /\ pc' = "call"
    /\ rthis' = a
    /\ rd' = b
    /\ depth' = 0
    /\ UNCHANGED <<litA, litB, a, b, places, mode, res, call, powi>>

Return(value) ==
    /\ pc' = "return"
    /\ res' = value
    /\ UNCHANGED <<rthis, rd, depth>>

Throw(error) ==
    /\ pc' = "done"
    /\ res' = error
    /\ UNCHANGED <<rthis, rd, depth>>

\* this.negate().remainder(d).negate(): the inner call is entered
CallWithNegatedThis(t) ==
    IF IsErr(t) THEN Throw(t)
    ELSE /\ depth < MaxDepth
         /\ rthis' = t
         /\ depth' = depth + 1
         /\ UNCHANGED <<pc, rd, res>>

\* this.remainder(d.negate()): the call is entered
CallWithNegatedD(e) ==
    IF IsErr(e) THEN Throw(e)
    ELSE /\ rd' = e
         /\ UNCHANGED <<pc, rthis, depth, res>>

ReturnOrThrow(r) == IF IsErr(r) THEN Throw(r) ELSE Return(r)

\* the body of remainder(d), up to its return or its next call of remainder
RemainderBody ==
    /\ pc = "call"
    /\ IF rthis.isNaN \/ rd.isNaN THEN Return(Decimal128(NaNLiteral))
       ELSE IF rthis.isNegative THEN CallWithNegatedThis(negate(rthis))
       ELSE IF rd.isNegative THEN CallWithNegatedD(negate(rd))
       ELSE IF ~rthis.isFinite THEN Return(Decimal128(NaNLiteral))
       ELSE IF ~rd.isFinite THEN Return(rthis)
       ELSE ReturnOrThrow(remainderOfNonNegative(rthis, rd))
    /\ UNCHANGED <<litA, litB, a, b, op, places, mode, call, powi>>

\* the .negate() of this.negate().remainder(d).negate()
NegateReturned(v) ==
    /\ res' = v
    /\ depth' = depth - 1
    /\ pc' = IF IsErr(v) THEN "done" ELSE "return"

\* a call returns: to the caller of a.remainder(b), or into the .negate()
\* of the call that made it
RemainderReturn ==
    /\ pc = "return"
    /\ IF depth = 0
       THEN pc' = "done" /\ UNCHANGED <<res, depth>>
       ELSE NegateReturned(negate(res))
    /\ UNCHANGED <<litA, litB, a, b, op, places, mode, rthis, rd, call, powi>>

\* a.pow(b) is entered
PowCall ==
    /\ Small(a)
    /\ Small(b)
    /\ op = "none"
    /\ op' = "pow"
    /\ pc' = "powCall"
    /\ rthis' = a
    /\ rd' = b
    /\ depth' = 0
    /\ UNCHANGED <<litA, litB, a, b, places, mode, res, call, powi>>

\* this.pow(n.negate()).reciprocal(): the inner call is entered
PowWithNegatedN(e) ==
    IF IsErr(e) THEN Throw(e)
    ELSE /\ depth < MaxDepth
         /\ rd' = e
         /\ depth' = depth + 1
         /\ UNCHANGED <<pc, rthis, res>>

\* new Decimal128("0")
Zero == Made(New(<<"0">>))

\* the body of pow(n) up to its loop, its next call of pow or its throw
PowBody ==
    /\ pc = "powCall"
    /\ IF ~Decimal128IsInteger(rd)
       THEN Throw(Err("TypeError", "Exponent must be an integer")) /\ UNCHANGED powi
       ELSE IF rd.isNegative
       THEN PowWithNegatedN(negate(rd)) /\ UNCHANGED powi
       ELSE /\ pc' = "powLoop"
            /\ powi' = Zero
            /\ res' = One
            /\ UNCHANGED <<rthis, rd, depth>>
    /\ UNCHANGED <<litA, litB, a, b, op, places, mode, call>>

\* result = result.multiply(this); i = i.add(one)
PowStep(result, next) ==
    IF IsErr(result) THEN Throw(result) /\ UNCHANGED powi
    ELSE IF IsErr(next) THEN Throw(next) /\ UNCHANGED powi
    ELSE /\ res' = result
         /\ powi' = next
         /\ UNCHANGED <<pc, rthis, rd, depth>>

\* the test of the while loop, and one turn of the loop or the return
PowLoop ==
    /\ pc = "powLoop"
    /\ Small(powi)
    /\ Small(res)
    /\ IF cmp(powi, rd) = -1
       THEN PowStep(multiply(res, rthis), add(powi, One))
       ELSE pc' = "powReturn" /\ UNCHANGED <<res, powi, rthis, rd, depth>>
    /\ UNCHANGED <<litA, litB, a, b, op, places, mode, call>>

\* the .reciprocal() of this.pow(n.negate()).reciprocal()
ReciprocalReturned(v) ==
    /\ res' = v
    /\ depth' = depth - 1
    /\ pc' = IF IsErr(v) THEN "done" ELSE "powReturn"

\* a call of pow returns: to the caller of a.pow(b), or into the
\* .reciprocal() of the call that made it
PowReturn ==
    /\ pc = "powReturn"
    /\ IF depth = 0
       THEN pc' = "done" /\ UNCHANGED <<res, depth>>
       ELSE ReciprocalReturned(reciprocal(res))
    /\ UNCHANGED <<litA, litB, a, b, op, places, mode, rthis, rd, call, powi>>

Next ==
    \/ Add
    \/ Subtract
    \/ Multiply
    \/ Divide
    \/ Reparse
    \/ Negate
    \/ Abs
    \/ Truncate
    \/ Floor
    \/ Ceil
    \/ Reciprocal
    \/ ToDecimalPlaces
    \/ Cmp
    \/ Round
    \/ RemainderCall
    \/ RemainderBody
    \/ RemainderReturn
    \/ PowCall
    \/ PowBody
    \/ PowLoop
    \/ PowReturn

Spec == Init /\ [][Next]_vars

\* ------------------------------------------------------------------------
\* roundIt on its own: every sign, digit to round, deciding digit and mode
\* ------------------------------------------------------------------------
\* -1 marks the passage from the integer part to the fractional part
Digit == -1..9

RoundItInit ==
    /\ call \in [isNegative : BOOLEAN, digitToRound : Digit, decidingDigit : Digit,
                 roundingMode : RoundingMode, returned : {JsUndefined}]
    /\ litA = <<>>
    /\ litB = <<>>
    /\ a = None
    /\ b = None
    /\ op = "none"
    /\ places = 0
    /\ mode = ROUNDING_MODE_DEFAULT
    /\ res = None
    /\ pc = "idle"
    /\ rthis = None
    /\ rd = None
    /\ depth = 0
    /\ powi = None

RoundIt ==
    /\ call.returned = JsUndefined
    /\ call' = [call EXCEPT !.returned = roundIt(call.isNegative, call.digitToRound,
                                                 call.decidingDigit, call.roundingMode)]
    /\ UNCHANGED <<litA, litB, a, b, op, places, mode, res, pc, rthis, rd, depth, powi>>

RoundItNext == RoundIt

RoundItSpec == RoundItInit /\ [][RoundItNext]_vars

\* ------------------------------------------------------------------------
\* The claims.  The value of a finite numeral is its signed significand
\* over ten to the number of its fractional digits.
\* ------------------------------------------------------------------------
Finite(x) == IsNum(x) /\ ~x.isNaN /\ x.isFinite

Infinite(x) == IsNum(x) /\ ~x.isNaN /\ ~x.isFinite

IsNaN(x) == IsNum(x) /\ x.isNaN

ValueNum(x) ==
    (IF x.isNegative THEN -1 ELSE 1) * DigitsToInt(DigitStringSignificand(x.digits))

ValueDen(x) == Pow10(Len(x.digits.rhs))

InfinityOfSign(x, negative) == Infinite(x) /\ x.isNegative = negative

\* C1: the sum of two finite numerals is returned without error and is a
\* finite numeral whose value is exactly the sum of the two values; 0.1 add
\* 0.2 is 0.3 and 1.1 add 2.2 is 3.3.
C1_AddIsExact ==
    (op = "add" /\ Finite(a) /\ Finite(b)) =>
        /\ Finite(res)
        /\ ValueNum(res) * ValueDen(a) * ValueDen(b)
             = (ValueNum(a) * ValueDen(b) + ValueNum(b) * ValueDen(a)) * ValueDen(res)

\* C2: a finite numeral divided by a finite numeral whose value is not zero
\* is a finite numeral, never NaN, and is the exact quotient whenever it has
\* fewer than 34 digits (10 divide 4 is 2.5).
C2_DivideIsExact ==
    (op = "divide" /\ Finite(a) /\ Finite(b) /\ ValueNum(b) # 0) =>
        /\ Finite(res)
        /\ DigitStringCountSignificantDigits(res.digits) < MAX_SIGNIFICANT_DIGITS
             => ValueNum(res) * ValueNum(b) * ValueDen(a)
                  = ValueNum(a) * ValueDen(b) * ValueDen(res)

NaNOperand == IsNum(a) /\ IsNum(b) /\ (a.isNaN \/ b.isNaN)

C4_AddInfinities ==
    (op = "add" /\ ~NaNOperand /\ (Infinite(a) \/ Infinite(b))) =>
        IF Infinite(a) /\ Infinite(b)
        THEN IF a.isNegative = b.isNegative
             THEN InfinityOfSign(res, a.isNegative)
             ELSE IsNaN(res)
        ELSE IF Infinite(a)
        THEN InfinityOfSign(res, a.isNegative)
        ELSE InfinityOfSign(res, b.isNegative)

C4_Witness ==
    /\ op = "add"
    /\ Infinite(a)
    /\ Infinite(b)
    /\ a.isNegative
    /\ ~b.isNegative
    /\ IsNaN(res)

\* C5: multiply with an infinite operand and no NaN is NaN when the other
\* operand is a finite zero, and otherwise is the infinity that is positive
\* if and only if the signs of the operands match.
C5_MultiplyInfinities ==
    (op = "multiply" /\ ~NaNOperand /\ (Infinite(a) \/ Infinite(b))) =>
        LET other == IF Infinite(a) THEN b ELSE a
        IN IF Finite(other) /\ ValueNum(other) = 0
           THEN IsNaN(res)
           ELSE InfinityOfSign(res, a.isNegative # b.isNegative)

\* the literal without its sign and its underscores
PlainBody(lit) == Unsigned(SelectSeq(lit, LAMBDA c : c # "_"))

\* the digits of a plain literal from its first non-zero digit on
SignificantDigits(lit) ==
    CharsToDigits(SubstringFrom(RemoveFirstDot(PlainBody(lit)),
                                LeadingZeros(RemoveFirstDot(PlainBody(lit)))))

RECURSIVE Increment(_)
\* the digits of the number one greater
Increment(ds) ==
    IF ds = <<>> THEN <<1>>
    ELSE IF ds[Len(ds)] = 9 THEN Append(Increment(SubSeq(ds, 1, Len(ds) - 1)), 0)
    ELSE Append(SubSeq(ds, 1, Len(ds) - 1), ds[Len(ds)] + 1)

\* the first 34 of 35 digits, rounded half-even on the 35th
RoundedHalfEven(sd) ==
    IF \/ sd[MAX_SIGNIFICANT_DIGITS + 1] > 5
       \/ sd[MAX_SIGNIFICANT_DIGITS + 1] = 5 /\ sd[MAX_SIGNIFICANT_DIGITS] % 2 = 1
    THEN Increment(SubSeq(sd, 1, MAX_SIGNIFICANT_DIGITS))
    ELSE SubSeq(sd, 1, MAX_SIGNIFICANT_DIGITS)

DigitsFromFirstNonZero(ds) ==
    IF \A i \in 1..Len(ds) : ds[i] = 0 THEN <<>>
    ELSE SubSeq(ds, CHOOSE i \in 1..Len(ds) : ds[i] # 0 /\ \A j \in 1..(i - 1) : ds[j] = 0,
                Len(ds))

\* C6: a plain-decimal literal of 35 significant digits is refused with
\* RangeError "Integer too large" when it has no fractional part, and is
\* accepted when it has one, as a numeral of exactly 34 significant digits:
\* the literal rounded half-even at the 34th digit.
C6_PrecisionOverflowAsymmetry ==
    (/\ digitStrRegExp(litA)
     /\ Len(SignificantDigits(litA)) = MAX_SIGNIFICANT_DIGITS + 1) =>
        IF ~HasDot(litA)
        THEN a = Err("RangeError", "Integer too large")
        ELSE /\ Finite(a)
             /\ DigitsFromFirstNonZero(DigitStringSignificand(a.digits))
                  = RoundedHalfEven(SignificantDigits(litA))

\* the plain-decimal form of a finite literal
PlainForm(lit) ==
    IF exponentRegExp(lit) THEN convertExponentialStringToDecimalString(lit) ELSE lit

\* the exponent of the digit sequence of a finite literal: the length of its
\* integer part
LiteralExponent(lit) == Len(SplitDot(PlainBody(PlainForm(lit))).lhs)

\* C7: a literal whose digit sequence has exponent 6144 is accepted and
\* one whose exponent is 6145 is refused with RangeError "Exponent too big".
C7_ExponentBound ==
    (exponentRegExp(litA) \/ digitStrRegExp(litA)) =>
        /\ LiteralExponent(litA) = EXPONENT_MAX => Finite(a)
        /\ LiteralExponent(litA) = EXPONENT_MAX + 1 => a = Err("RangeError", "Exponent too big")

\* C8: the text toString gives for a finite numeral is accepted by the
\* constructor, and the numeral made of it has the sign of the first and
\* compares equal to it.
C8_RoundTrip ==
    (op = "reparse" /\ Finite(a)) =>
        /\ Finite(res)
        /\ res.isNegative = a.isNegative
        /\ (Small(a) /\ Small(res)) => cmp(res, a) = 0

\* the digits of x up to its n-th fractional digit
KeptDigits(x, n) == x.digits.lhs \o SubSeq(x.digits.rhs, 1, n)

\* x rounded to n fractional digits by the rounding-mode table, times 10^n:
\* the digits before the last kept one, then the last kept digit or that
\* digit plus one as the table says of it and the first discarded digit
RoundedByTable(x, n, m) ==
    10 * DigitsToInt(SubSeq(KeptDigits(x, n), 1, Len(KeptDigits(x, n)) - 1))
    + roundIt(x.isNegative, KeptDigits(x, n)[Len(KeptDigits(x, n))], x.digits.rhs[n + 1], m)

Magnitude(x) == DigitsToInt(DigitStringSignificand(x.digits))

\* C9: round(n, mode) of a finite numeral with more than n fractional digits
\* is a numeral with at most n fractional digits, its last digit set by the
\* rounding-mode table; 2.5 rounds to 3 in the modes halfExpand, halfCeil,
\* ceil and expand and to 2 in the others.
C9_RoundByTable ==
    (op = "round" /\ Finite(a) /\ Len(a.digits.rhs) > places) =>
        /\ Finite(res)
        /\ Len(res.digits.rhs) <= places
        /\ Small(a) =>
             Magnitude(res) * Pow10(places) = RoundedByTable(a, places, mode) * ValueDen(res)

\* C10: every call of remainder completes, with a numeral or an error, after
\* finitely many calls of remainder and negate: no call of remainder makes a
\* nested call whose operands are its own, which would recur for ever, and
\* "-7" remainder "3" completes with the value 2.
C10_RemainderCompletes ==
    [][/\ (pc = "call" /\ depth' > depth) => <<rthis', rd'>> # <<rthis, rd>>
       /\ (pc' = "done" /\ op' = "remainder"
              /\ litA = <<"-", "7">> /\ litB = <<"3">>) =>
             (Finite(res') /\ ValueNum(res') = 2 * ValueDen(res'))]_vars

\* C11: negate of a finite or infinite numeral returns, without error, a
\* numeral of the opposite sign with the classification and the digits of
\* the first.
C11_NegateFlipsSign ==
    (op = "negate" /\ (Finite(a) \/ Infinite(a))) =>
        /\ IsNum(res)
        /\ res.isNegative # a.isNegative
        /\ res.isNaN = a.isNaN
        /\ res.isFinite = a.isFinite
        /\ res.digits = a.digits

\* -1, 0 or 1 as the signed decimal value of x is less than, equal to or
\* greater than that of y
Order(x, y) ==
    IF ValueNum(x) * ValueDen(y) < ValueNum(y) * ValueDen(x) THEN -1
    ELSE IF ValueNum(x) * ValueDen(y) > ValueNum(y) * ValueDen(x) THEN 1
    ELSE 0

\* C12: cmp of two finite numerals is -1, 0 or 1 as the signed decimal value
\* of the first is less than, equal to or greater than that of the second.
C12_CmpOrdersByValue ==
    (op = "cmp" /\ Finite(a) /\ Finite(b)) => res.value = Order(a, b)

\* the table of the rounding modes: whether the digit to round goes up
RoundsUp(isNegative, digitToRound, decidingDigit, roundingMode) ==
    CASE roundingMode = "ceil" -> ~isNegative
      [] roundingMode = "floor" -> isNegative
      [] roundingMode = "expand" -> TRUE
      [] roundingMode = "trunc" -> FALSE
      [] roundingMode = "halfExpand" -> decidingDigit >= 5
      [] roundingMode = "halfCeil" -> decidingDigit >= 5 /\ ~isNegative
      [] roundingMode = "halfFloor" ->
           decidingDigit > 5 \/ (decidingDigit = 5 /\ isNegative)
      [] roundingMode = "halfTrunc" -> decidingDigit > 5
      [] roundingMode = "halfEven" ->
           decidingDigit > 5 \/ (decidingDigit = 5 /\ digitToRound % 2 = 1)

\* C13: roundIt returns the digit to round or that digit plus one, and the
\* digit plus one exactly when the table of the rounding modes says so.
C13_RoundItByTable ==
    (/\ call.returned # JsUndefined
     /\ call.digitToRound \in 0..9
     /\ call.decidingDigit \in 0..9) =>
        /\ call.returned \in {call.digitToRound, call.digitToRound + 1}
        /\ call.returned = call.digitToRound + 1
             <=> RoundsUp(call.isNegative, call.digitToRound,
                          call.decidingDigit, call.roundingMode)

\* a tie on the digit 9 in the mode halfEven has returned 10
C13_Witness ==
    /\ call.roundingMode = "halfEven"
    /\ call.digitToRound = 9
    /\ call.decidingDigit = 5
    /\ call.returned = 10

\* the digits of a finite numeral are at most 34 and its exponent is in range
WithinLimits(x) ==
    Finite(x) =>
        /\ Len(x.digits.lhs) + Len(x.digits.rhs) <= MAX_SIGNIFICANT_DIGITS
        /\ DigitStringExponent(x.digits) >= EXPONENT_MIN
        /\ DigitStringExponent(x.digits) <= EXPONENT_MAX

\* C14: every finite numeral that a construction or an operation has
\* produced has at most 34 digits, integer part and fractional part
\* together, and an exponent from -6143 to 6144.
C14_NumeralsWithinLimits ==
    /\ WithinLimits(a)
    /\ WithinLimits(b)
    /\ WithinLimits(res)
    /\ WithinLimits(rthis)
    /\ WithinLimits(rd)
    /\ WithinLimits(powi)

\* an operation has produced a finite numeral of 34 digits
C14_Witness ==
    /\ op = "negate"
    /\ Finite(res)
    /\ Len(res.digits.lhs) + Len(res.digits.rhs) = MAX_SIGNIFICANT_DIGITS

====
